---- MODULE Spec2Model ----
(***************************************************************************)
(* A model of formula.py (CJWorkbench/formula): render() and the functions *)
(* it calls.  Text (column names, formula text, messages' arguments) is a  *)
(* sequence of one-character strings, so that str(), strip() and           *)
(* concatenation are computed character by character.                      *)
(***************************************************************************)
EXTENDS Integers, Sequences, FiniteSets, TLC

VARIABLES
    table,    \* the table object the caller passes (mutable; absent = None)
    before,   \* the caller's table (SpecSanitize: column) as it was when the
              \* call started
    params,   \* the configuration of the call
    code,     \* what the external parser/compiler yields for the formula text
    ret,      \* what the call returned
    log,      \* the steps of the call: prepare, compile, invoke(args); in
              \* SpecSanitize and SpecMigrate, what each call returned
    newcol    \* the output column the call built (SpecSanitize: the column
              \* object the caller passes)

vars == <<table, before, params, code, ret, log, newcol>>

\* ------------------------------------------------------------------ bounds
MaxRows == 2
MaxCols == 2

\* ------------------------------------------------------------------ text
Digits == <<"0", "1", "2", "3", "4", "5", "6", "7", "8", "9">>

RECURSIVE NatToStr(_)
\* str(n) of a non-negative int: its decimal digits
NatToStr(n) ==
    IF n < 10 THEN <<Digits[n + 1]>>
    ELSE NatToStr(n \div 10) \o <<Digits[(n % 10) + 1]>>

\* str(n) / f"{n}" of an int
IntToStr(n) == IF n < 0 THEN <<"-">> \o NatToStr(-n) ELSE NatToStr(n)

IsSpace(c) == c \in {" ", "\t", "\n"}

RECURSIVE LStrip(_)
LStrip(s) == IF s # <<>> /\ IsSpace(Head(s)) THEN LStrip(Tail(s)) ELSE s

RECURSIVE RStrip(_)
RStrip(s) ==
    IF s # <<>> /\ IsSpace(s[Len(s)]) THEN RStrip(SubSeq(s, 1, Len(s) - 1)) ELSE s

\* the text as it is, not stripped
Strip_none(s) == s

\* str.strip()
Strip(s) == RStrip(LStrip(s))

\* ------------------------------------------------------------------ values
\* A cell value: k is its type, n its number (or instant, in days since
\* 1899-12-30), s its text.
Null == [k |-> "null", n |-> 0, s |-> <<>>]
Num(i) == [k |-> "num", n |-> i, s |-> <<>>]
Str(t) == [k |-> "str", n |-> 0, s |-> t]
Bool(b) == [k |-> "bool", n |-> IF b THEN 1 ELSE 0, s |-> <<>>]
Dt(d) == [k |-> "dt", n |-> d, s |-> <<>>]
\* a float whose value is the integer i
Flt(i) == [k |-> "flt", n |-> i, s |-> <<>>]
\* an object of a custom class: id tells objects apart, t is what str() gives
Obj(id, t) == [k |-> "obj", n |-> id, s |-> t]

IsNull(v) == v.k = "null"

\* ------------------------------------------------------------------ tables
\* A DataFrame: nrows (the length of its index) and its columns in order,
\* each [name, dtype, cells]; absent = TRUE is None.
NoTable == [absent |-> TRUE, nrows |-> 0, cols |-> <<>>]
Frame(n, cs) == [absent |-> FALSE, nrows |-> n, cols |-> cs]

\* table.columns
Columns(t) == {t.cols[i].name : i \in 1..Len(t.cols)}

\* ------------------------------------------------------------------ naming
S_result == <<"r", "e", "s", "u", "l", "t">>

RECURSIVE FirstFreeSuffix(_, _, _)
\* the while loop of _get_output_column: n += 1 while f"{out_column}{n}" is a column
FirstFreeSuffix(names, base, n) ==
    IF (base \o IntToStr(n)) \in names
    THEN FirstFreeSuffix(names, base, n + 1)
    ELSE n

GetOutputColumn_off(names, out_column) ==
    LET base == IF out_column = <<>> THEN S_result ELSE out_column
    IN  IF base \in names
        THEN base \o IntToStr(FirstFreeSuffix(names, base, 1))
        ELSE base

\* _get_output_column(table, out_column), names = table.columns
GetOutputColumn(names, out_column) ==
    LET base == IF out_column = <<>> THEN S_result ELSE out_column
    IN  IF base \in names
        THEN base \o IntToStr(FirstFreeSuffix(names, base, 0))
        ELSE base

\* ------------------------------------------------------------------ messages
\* i18n.trans(key, default, {placeholder: arg}); Plain(text) is a bare str
Msg(key, arg) == [plain |-> FALSE, key |-> key, arg |-> arg]
Plain(text) == [plain |-> TRUE, key |-> "", arg |-> text]
NoMsg == Msg("", <<>>)

\* ------------------------------------------------------------------ the formula engine
\* What Parser().ast(formula)[1].compile() yields (formulas is an external
\* library): whether the text compiles, and for the compiled function
\*   inputs    its declared inputs in order, each [token, none, ranges]:
\*             none = TRUE is an input that resolved to no object, ranges the
\*             ranges of its object, each [r1, r2, n1, n2, ref] with r1, r2 text
\*             and n1, n2 numbers, as the library gives them;
\*   fault     "none", "notimpl" (an unimplemented function: DispatcherError
\*             whose third argument is a NotImplementedError, fname its name) or
\*             "other" (any other DispatcherError), raised by every
\*             invocation but the first faultFrom;
\*   kind      the type of the values it returns, array whether it returns
\*             them wrapped in a numpy array.
S_v == <<"v">>

\* the value the compiled function computes in its j-th invocation (j from 0)
ResultValue(kind, j) ==
    CASE kind = "num" -> Num(100 + j)
      [] kind = "str" -> Str(S_v \o IntToStr(j))
      [] kind = "numstr" -> Str(IntToStr(7 + j))
      [] kind = "bool" -> Bool(j % 2 = 0)
      [] kind = "mixed" -> IF j = 0 THEN Num(100) ELSE Str(S_v \o IntToStr(j))
      [] OTHER -> Null

\* code(*args), the j-th invocation
Invoke(c, args, j) ==
    IF c.fault # "none" /\ j >= c.faultFrom
    THEN [st |-> "dispatcher", notimpl |-> c.fault = "notimpl", name |-> c.fname,
          array |-> FALSE, item |-> Null]
    ELSE [st |-> "ok", notimpl |-> FALSE, name |-> <<>>,
          array |-> c.array, item |-> ResultValue(c.kind, j)]

\* An argument of an invocation: a scalar, or a list of values.
Scalar(v) == [scalar |-> TRUE, items |-> <<v>>]
List(vs) == [scalar |-> FALSE, items |-> vs]

\* flatten_single_element_lists(x), x a list
FlattenSingleElementLists(xs) == IF Len(xs) = 1 THEN Scalar(xs[1]) ELSE List(xs)

\* Outcomes of the evaluation functions: st is "ok" (val returned), "uve"
\* (UserVisibleError(msg) raised) or "raise" (another exception raised).
Ok(v) == [st |-> "ok", msg |-> NoMsg, val |-> v]
Uve(m) == [st |-> "uve", msg |-> m, val |-> Null]
Raised == [st |-> "raise", msg |-> NoMsg, val |-> Null]

\* eval_excel that re-raises every DispatcherError
EvalExcel_reraise(c, args, j) ==
    LET r == Invoke(c, args, j)
    IN  IF r.st = "dispatcher" THEN Raised ELSE Ok(r.item)

\* eval_excel(code, args), the j-th invocation of code
EvalExcel(c, args, j) ==
    LET r == Invoke(c, args, j)
    IN  IF r.st = "dispatcher"
        THEN IF r.notimpl
             THEN Uve(Msg("excel.functionNotImplemented", r.name))
             ELSE Raised
        ELSE Ok(r.item)   \* ret.item() of an array, ret otherwise

\* ------------------------------------------------------------------ ranges
RECURSIVE ParseNat(_, _)
\* int(text) of decimal digits
ParseNat(s, acc) ==
    IF s = <<>> THEN acc
    ELSE ParseNat(Tail(s),
                  10 * acc + ((CHOOSE d \in 1..10 : Digits[d] = Head(s)) - 1))

StrToInt(s) == ParseNat(s, 0)

Min(a, b) == IF a < b THEN a ELSE b
Max(a, b) == IF a > b THEN a ELSE b

\* the slice with a null for every referenced cell past the last row
TablePart_padded(t, r1, r2, c1, c2) ==
    LET w == c2 - c1
    IN  [k \in 1..((r2 - r1) * w) |->
            IF r1 + ((k - 1) \div w) >= t.nrows THEN Null
            ELSE t.cols[c1 + ((k - 1) % w) + 1].cells[r1 + ((k - 1) \div w) + 1]]

\* list(table.iloc[r1:r2, c1:c2].values.flat), 0 <= r1, 0 <= c1 < c2 <= ncols:
\* the cells of rows r1..r2-1 that exist, row by row
TablePart(t, r1, r2, c1, c2) ==
    LET lo == Min(r1, t.nrows)
        hi == Min(r2, t.nrows)
        h == Max(hi - lo, 0)
        w == c2 - c1
    IN  [k \in 1..(h * w) |->
            t.cols[c1 + ((k - 1) % w) + 1].cells[lo + ((k - 1) \div w) + 1]]

\* the bounds test that also rejects a row_end past the last row
OneRowBadRef_rows(t, r1, r2, c1, c2) ==
    r1 < 0 \/ c1 < 0 \/ c2 > Len(t.cols) \/ r2 > t.nrows \/ r1 >= r2 \/ c1 >= c2

\* the bounds test of eval_excel_one_row (True = out of bounds)
OneRowBadRef(t, r1, r2, c1, c2) ==
    r1 < 0 \/ c1 < 0 \/ c2 > Len(t.cols) \/ r1 >= r2 \/ c1 >= c2

RECURSIVE OneRowArgs(_, _, _, _)
\* the loop of eval_excel_one_row over code.inputs, from input i on
OneRowArgs(inputs, t, i, acc) ==
    IF i > Len(inputs) THEN [st |-> "ok", msg |-> NoMsg, args |-> acc]
    ELSE LET obj == inputs[i] IN
         IF obj.none
         THEN [st |-> "uve", msg |-> Msg("excel.one_row.invalidCellRange", obj.token),
               args |-> acc]
         ELSE IF Len(obj.ranges) # 1
         THEN [st |-> "uve", msg |-> Msg("excel.one_row.cellRangeNotRectangular", <<>>),
               args |-> acc]
         ELSE LET range == obj.ranges[1]
                  r1 == StrToInt(range.r1) - 1
                  r2 == StrToInt(range.r2)
                  c1 == range.n1 - 1
                  c2 == range.n2
              IN  IF OneRowBadRef(t, r1, r2, c1, c2)
                  THEN [st |-> "uve", msg |-> Msg("excel.one_row.badRef", range.ref),
                        args |-> acc]
                  ELSE OneRowArgs(inputs, t, i + 1,
                          Append(acc, FlattenSingleElementLists(
                                          TablePart(t, r1, r2, c1, c2))))

\* the evaluation that invokes the formula with the arguments resolved so far
\* before it reports a range that did not resolve
EvalExcelOneRow_eager(c, t) ==
    LET a == OneRowArgs(c.inputs, t, 1, <<>>)
        e == EvalExcel(c, a.args, 0)
    IN  [out |-> IF e.st # "ok" \/ a.st = "ok" THEN e ELSE Uve(a.msg),
         calls |-> <<a.args>>]

\* eval_excel_one_row(code, table): the outcome and the invocations made
EvalExcelOneRow(c, t) ==
    LET a == OneRowArgs(c.inputs, t, 1, <<>>)
    IN  IF a.st # "ok"
        THEN [out |-> Uve(a.msg), calls |-> <<>>]
        ELSE [out |-> EvalExcel(c, a.args, 0), calls |-> <<a.args>>]

\* the column bounds test that is off by one at the last column
AllRowsBadColumnRef_off(t, c1, c2) == c1 < 0 \/ c2 >= Len(t.cols) \/ c1 >= c2

\* the column bounds test of eval_excel_all_rows (True = out of bounds)
AllRowsBadColumnRef(t, c1, c2) == c1 < 0 \/ c2 > Len(t.cols) \/ c1 >= c2

S_1 == <<"1">>

RECURSIVE AllRowsColIdx(_, _, _, _, _)
\* the loops of eval_excel_all_rows over code.inputs and each input's ranges,
\* from range j of input i on: col_idx, one list of column numbers per range
AllRowsColIdx(inputs, t, i, j, acc) ==
    IF i > Len(inputs) THEN [st |-> "ok", msg |-> NoMsg, idx |-> acc]
    ELSE LET obj == inputs[i] IN
         IF obj.none
         THEN [st |-> "uve", msg |-> Msg("excel.badCellReference", obj.token),
               idx |-> acc]
         ELSE IF j > Len(obj.ranges) THEN AllRowsColIdx(inputs, t, i + 1, 1, acc)
         ELSE LET rng == obj.ranges[j]
                  c1 == rng.n1 - 1
                  c2 == rng.n2
              IN  IF rng.r1 # S_1 \/ rng.r2 # S_1
                  THEN [st |-> "uve",
                        msg |-> Msg("excel.formulaFirstRowReference", <<>>),
                        idx |-> acc]
                  ELSE IF AllRowsBadColumnRef(t, c1, c2)
                  THEN [st |-> "uve",
                        msg |-> Msg("excel.all_rows.badColumnRef", rng.ref),
                        idx |-> acc]
                  ELSE AllRowsColIdx(inputs, t, i, j + 1,
                          Append(acc, [k \in 1..(c2 - c1) |-> c1 + k - 1]))

\* the arguments built from the row after r
ArgsToExcel_next(t, col_idx, r) ==
    [a \in 1..Len(col_idx) |->
        FlattenSingleElementLists(
            [k \in 1..Len(col_idx[a]) |->
                t.cols[col_idx[a][k] + 1].cells[IF r + 2 > t.nrows THEN 1 ELSE r + 2]])]

\* [flatten_single_element_lists([row[idx] for idx in col]) for col in col_idx],
\* row = table.values[r] (r from 0)
ArgsToExcel(t, col_idx, r) ==
    [a \in 1..Len(col_idx) |->
        FlattenSingleElementLists(
            [k \in 1..Len(col_idx[a]) |-> t.cols[col_idx[a][k] + 1].cells[r + 1]])]

RECURSIVE AllRowsLoop(_, _, _, _, _, _)
\* the loop of eval_excel_all_rows over table.values, from row r on
AllRowsLoop(c, t, col_idx, r, acc, calls) ==
    IF r >= t.nrows THEN [out |-> Ok(Null), col |-> acc, calls |-> calls]
    ELSE LET args == ArgsToExcel(t, col_idx, r)
             e == EvalExcel(c, args, r)
         IN  IF e.st # "ok"
             THEN [out |-> e, col |-> <<>>, calls |-> Append(calls, args)]
             ELSE AllRowsLoop(c, t, col_idx, r + 1, Append(acc, e.val),
                              Append(calls, args))

\* eval_excel_all_rows(code, table): the outcome, the list newcol and the
\* invocations made
EvalExcelAllRows(c, t) ==
    LET x == AllRowsColIdx(c.inputs, t, 1, 1, <<>>)
    IN  IF x.st # "ok"
        THEN [out |-> Uve(x.msg), col |-> <<>>, calls |-> <<>>]
        ELSE AllRowsLoop(c, t, x.idx, 0, <<>>, <<>>)

\* ------------------------------------------------------------------ series
\* A Series: its dtype and its cells, indexed 0..n-1.
Series(dtype, cells) == [dtype |-> dtype, cells |-> cells]
NoSeries == Series("none", <<>>)

IsNumericDtype(d) == d \in {"int64", "float64", "bool"}
IsDatetimeDtype(d) == d = "datetime64"

\* the dtype pd.Series(list) infers for a list of Python values
InferDtype(cells) ==
    LET ks == {cells[i].k : i \in 1..Len(cells)}
    IN  IF ks = {} THEN "float64"
        ELSE IF ks = {"bool"} THEN "bool"
        ELSE IF ks = {"num"} THEN "int64"
        ELSE IF ks \subseteq {"num", "flt", "null"} /\ ks # {"null"} THEN "float64"
        ELSE IF ks \subseteq {"dt", "null"} /\ ks # {"null"} THEN "datetime64"
        ELSE "object"

\* pd.Series(list)
SeriesOf(cells) == Series(InferDtype(cells), cells)

S_True == <<"T", "r", "u", "e">>
S_False == <<"F", "a", "l", "s", "e">>
S_nan == <<"n", "a", "n">>
S_dot0 == <<".", "0">>
S_day == <<"d", "a", "y">>

\* str(value)
PyStr(v) ==
    CASE v.k = "num" -> IntToStr(v.n)
      [] v.k = "flt" -> IntToStr(v.n) \o S_dot0
      [] v.k = "str" -> v.s
      [] v.k = "bool" -> IF v.n = 1 THEN S_True ELSE S_False
      [] v.k = "dt" -> S_day \o IntToStr(v.n)
      [] v.k = "obj" -> v.s
      [] OTHER -> S_nan

\* series.astype(str) alone: a null becomes the text "nan"
AsTypeStr_nan(cells) == [i \in 1..Len(cells) |-> Str(PyStr(cells[i]))]

\* series.astype(str), with the null positions put back
AsTypeStrKeepNulls(cells) ==
    [i \in 1..Len(cells) |-> IF IsNull(cells[i]) THEN Null ELSE Str(PyStr(cells[i]))]

IsDigits(s) == s # <<>> /\ \A i \in 1..Len(s) : \E d \in 1..10 : Digits[d] = s[i]

\* digits "." "0": the text of a float with a whole value
IsFloatText(b) ==
    /\ Len(b) > 2
    /\ b[Len(b) - 1] = "."
    /\ b[Len(b)] = "0"
    /\ IsDigits([i \in 1..(Len(b) - 2) |-> b[i]])

Signed(neg, n) == IF neg THEN 0 - n ELSE n

\* the number a text parses as: [ok, v]
ParseNumber(s) ==
    LET neg == s # <<>> /\ Head(s) = "-"
        body == IF neg THEN Tail(s) ELSE s
    IN  IF IsDigits(body)
        THEN [ok |-> TRUE, v |-> Num(Signed(neg, StrToInt(body)))]
        ELSE IF IsFloatText(body)
        THEN [ok |-> TRUE,
              v |-> Flt(Signed(neg, StrToInt([i \in 1..(Len(body) - 2) |-> body[i]])))]
        ELSE [ok |-> FALSE, v |-> Null]

\* pd.to_numeric(series, errors="coerce"): what does not parse becomes NaN
ToNumeric_coerce(ser) ==
    LET conv(v) == CASE v.k \in {"num", "flt"} -> v
                     [] v.k = "bool" -> Num(v.n)
                     [] v.k = "str" /\ v.s # <<>> /\ ParseNumber(v.s).ok -> ParseNumber(v.s).v
                     [] OTHER -> Null
        cells == [i \in 1..Len(ser.cells) |-> conv(ser.cells[i])]
    IN  [ok |-> TRUE,
         series |-> Series(IF \A i \in 1..Len(cells) : cells[i].k = "num"
                           THEN "int64" ELSE "float64", cells)]

\* pd.to_numeric(series) of an object series: [ok, series]
ToNumeric(ser) ==
    LET conv(v) == CASE v.k \in {"num", "flt", "null"} -> [ok |-> TRUE, v |-> v]
                     [] v.k = "bool" -> [ok |-> TRUE, v |-> Num(v.n)]
                     \* an empty string converts to NaN
                     [] v.k = "str" -> IF v.s = <<>> THEN [ok |-> TRUE, v |-> Null]
                                       ELSE ParseNumber(v.s)
                     [] OTHER -> [ok |-> FALSE, v |-> Null]
        rs == [i \in 1..Len(ser.cells) |-> conv(ser.cells[i])]
        cells == [i \in 1..Len(rs) |-> rs[i].v]
    IN  IF \A i \in 1..Len(rs) : rs[i].ok
        THEN [ok |-> TRUE,
              series |-> Series(IF \A i \in 1..Len(cells) : cells[i].k = "num"
                                THEN "int64" ELSE "float64", cells)]
        ELSE [ok |-> FALSE, series |-> ser]

\* autocast_series_dtype(series), series not categorical
AutocastSeriesDtype(ser) ==
    IF ser.dtype = "object"
    THEN IF \A i \in 1..Len(ser.cells) :
                IsNull(ser.cells[i]) \/ ser.cells[i] = Str(<<>>)
         THEN ser
         ELSE LET num == ToNumeric(ser)
              IN  IF num.ok THEN num.series
                  ELSE IF \E i \in 1..Len(ser.cells) :
                            ~IsNull(ser.cells[i]) /\ ser.cells[i].k # "str"
                       THEN Series("object", AsTypeStrKeepNulls(ser.cells))
                       ELSE ser
    ELSE ser

\* sanitize_series(series), series not categorical
SanitizeSeries(ser) ==
    IF IsNumericDtype(ser.dtype) THEN ser
    ELSE IF IsDatetimeDtype(ser.dtype) THEN ser
    ELSE Series("object", AsTypeStrKeepNulls(ser.cells))

\* [None] * k
Nones(k) == [i \in 1..Max(k, 0) |-> Null]

\* ------------------------------------------------------------------ excel_formula
S_err == <<"e", "r", "r">>

Event(ev, args) == [ev |-> ev, args |-> args]
Invocations(calls) == [i \in 1..Len(calls) |-> Event("invoke", calls[i])]

\* excel_formula(table, formula, all_rows), c what the parser yields for
\* formula: the outcome, the Series newcol and the steps taken
ExcelFormula(t, c, all_rows) ==
    IF ~c.compiles
    THEN [out |-> Uve(Msg("excel.invalidFormula", S_err)), series |-> NoSeries,
          log |-> <<Event("compile", <<>>)>>]
    ELSE IF all_rows
    THEN LET r == EvalExcelAllRows(c, t)
         IN  [out |-> r.out,
              series |-> IF r.out.st = "ok"
                         THEN AutocastSeriesDtype(SanitizeSeries(SeriesOf(r.col)))
                         ELSE NoSeries,
              log |-> <<Event("compile", <<>>)>> \o Invocations(r.calls)]
    ELSE LET r == EvalExcelOneRow(c, t)
         IN  [out |-> r.out,
              series |-> IF r.out.st = "ok"
                         THEN SeriesOf(<<r.out.val>> \o Nones(t.nrows - 1))
                         ELSE NoSeries,
              log |-> <<Event("compile", <<>>)>> \o Invocations(r.calls)]

\* ------------------------------------------------------------------ python_formula
S_builtins == <<"b", "u", "i", "l", "t", "i", "n", "s", ".">>
S_import == <<"_", "_", "i", "m", "p", "o", "r", "t", "_", "_">>
S_breakpoint == <<"b", "r", "e", "a", "k", "p", "o", "i", "n", "t">>
S_compile == <<"c", "o", "m", "p", "i", "l", "e">>
S_eval == <<"e", "v", "a", "l">>
S_exec == <<"e", "x", "e", "c">>
S_open == <<"o", "p", "e", "n">>
S_sum == <<"s", "u", "m">>
S_sorted == <<"s", "o", "r", "t", "e", "d">>
S_input == <<"i", "n", "p", "u", "t">>
S_getattr == <<"g", "e", "t", "a", "t", "t", "r">>
S_exit == <<"e", "x", "i", "t">>

\* names of builtins.__dict__: the six of to_disable and five of the others
\* (exit is the one site puts there; calling it raises SystemExit)
BuiltinNames ==
    {S_import, S_breakpoint, S_compile, S_eval, S_exec, S_open,
     S_sum, S_sorted, S_input, S_getattr, S_exit}

\* to_disable
ToDisable == {S_import, S_breakpoint, S_compile, S_eval, S_exec, S_open}

\* disable_func(name)(*args, **kwargs)
DisabledFunc(name) == Uve(Msg("python.disabledFunction", S_builtins \o name))

\* build_builtins_for_eval(): for each name of builtins.__dict__, whether it
\* is the builtin itself or the function disable_func(name) put in its place
BuildBuiltinsForEval ==
    [name \in BuiltinNames |-> IF name \in ToDisable THEN "disabled" ELSE "builtin"]

\* x.replace(" ", "_")
Replace(x) == [i \in 1..Len(x) |-> IF x[i] = " " THEN "_" ELSE x[i]]

\* [x.replace(" ", "_") for x in table.columns]
ColNames(t) == [i \in 1..Len(t.cols) |-> Replace(t.cols[i].name)]

\* table.values[r] (r from 0)
RowValues(t, r) == [i \in 1..Len(t.cols) |-> t.cols[i].cells[r + 1]]

RECURSIVE DictOfZip_first(_, _, _, _)
\* the dict that keeps the first value given for a key
DictOfZip_first(keys, vals, i, acc) ==
    IF i > Len(keys) THEN acc
    ELSE DictOfZip_first(keys, vals, i + 1,
            [k \in DOMAIN acc \cup {keys[i]} |->
                IF k \in DOMAIN acc THEN acc[k] ELSE vals[i]])

RECURSIVE DictOfZip(_, _, _, _)
\* dict(zip(keys, vals)), from pair i on: a later pair replaces an earlier
\* one of the same key
DictOfZip(keys, vals, i, acc) ==
    IF i > Len(keys) THEN acc
    ELSE DictOfZip(keys, vals, i + 1,
            [k \in DOMAIN acc \cup {keys[i]} |->
                IF k = keys[i] THEN vals[i] ELSE acc[k]])

S_name == <<"n", "a", "m", "e", " ", "'">>
S_undefined ==
    <<"'", " ", "i", "s", " ", "n", "o", "t", " ", "d", "e", "f", "i", "n", "e", "d">>

\* eval of an expression that is the identifier name (not one of the globals
\* or builtins), locals the row's dict: its value, or NameError
EvalName(name, locals) ==
    IF name \in DOMAIN locals THEN Ok(locals[name])
    ELSE [st |-> "exc", msg |-> Plain(S_name \o name \o S_undefined), val |-> Null]

\* eval(code, globals, row), the j-th evaluation: from evaluation faultFrom
\* on the expression calls the builtin fname (fault "builtin") or raises an
\* exception (any other fault; st "exc" is an instance of Exception); before
\* that it returns a value, that of the identifier fname for kind "name".  A
\* disabled builtin raises UserVisibleError, exit raises SystemExit (st
\* "exit": a BaseException that is not an Exception), any other builtin
\* returns.
PyEval(c, t, j) ==
    IF c.fault # "none" /\ j >= c.faultFrom
    THEN IF c.fault = "builtin"
         THEN IF BuildBuiltinsForEval[c.fname] = "disabled"
              THEN DisabledFunc(c.fname)
              ELSE IF c.fname = S_exit
              THEN [st |-> "exit", msg |-> NoMsg, val |-> Null]
              ELSE Ok(ResultValue(c.kind, j))
         ELSE [st |-> "exc", msg |-> Plain(S_err), val |-> Null]
    ELSE IF c.kind = "name"
    THEN EvalName(c.fname, DictOfZip(ColNames(t), RowValues(t, j), 1, <<>>))
    ELSE Ok(ResultValue(c.kind, j))

RECURSIVE PyRows(_, _, _, _, _)
\* the loop of python_formula over table.values, from row r on
PyRows(c, t, r, acc, evals) ==
    IF r >= t.nrows THEN [out |-> Ok(Null), col |-> acc, evals |-> evals]
    ELSE LET e == PyEval(c, t, r)
         IN  IF e.st # "ok" THEN [out |-> e, col |-> <<>>, evals |-> evals + 1]
             ELSE PyRows(c, t, r + 1, Append(acc, e.val), evals + 1)

\* python_formula(table, formula), c what compile() yields for formula
PythonFormula(t, c) ==
    IF ~c.compiles
    THEN [out |-> [st |-> "exc", msg |-> Plain(S_err), val |-> Null],
          series |-> NoSeries, log |-> <<Event("compile", <<>>)>>]
    ELSE LET r == PyRows(c, t, 0, <<>>, 0)
             \* pd.Series(list(itertools.repeat(None, len(table)))), cells set
             raw == Series(IF t.nrows = 0 THEN "float64" ELSE "object", r.col)
         IN  [out |-> r.out,
              series |-> IF r.out.st = "ok"
                         THEN AutocastSeriesDtype(SanitizeSeries(raw))
                         ELSE NoSeries,
              log |-> <<Event("compile", <<>>)>>
                      \o [i \in 1..r.evals |-> Event("eval", <<>>)]]

\* ------------------------------------------------------------------ render
\* the instants, in days since excel_1900_zero_date
Excel1900ZeroDate == 0
Excel1900MinDate == 2

\* the conversion without the test against excel_1900_min_date
PrepareTableForExcelFormulas_neg(t) ==
    [t EXCEPT !.cols =
        [i \in 1..Len(t.cols) |->
            IF IsDatetimeDtype(t.cols[i].dtype)
            THEN [name |-> t.cols[i].name, dtype |-> "float64",
                  cells |-> [r \in 1..t.nrows |->
                      LET v == t.cols[i].cells[r]
                      IN  IF v.k = "dt" THEN Flt(v.n - Excel1900ZeroDate) ELSE Null]]
            ELSE t.cols[i]]]

\* _prepare_table_for_excel_formulas(table)
PrepareTableForExcelFormulas(t) ==
    IF \A i \in 1..Len(t.cols) : ~IsDatetimeDtype(t.cols[i].dtype)
    THEN t
    ELSE [t EXCEPT !.cols =
            [i \in 1..Len(t.cols) |->
                IF IsDatetimeDtype(t.cols[i].dtype)
                THEN [name |-> t.cols[i].name, dtype |-> "float64",
                      cells |-> [r \in 1..t.nrows |->
                          LET v == t.cols[i].cells[r]
                          IN  IF v.k = "dt" /\ v.n >= Excel1900MinDate
                              THEN Flt(v.n - Excel1900ZeroDate)
                              ELSE Null]]
                ELSE t.cols[i]]]

\* series.reindex(index of n rows): the cells at 0..n-1, NaN where there is none
Reindex(cells, n) ==
    [r \in 1..n |-> IF r <= Len(cells) THEN cells[r] ELSE Null]

\* the dtype of a column after reindex: NaN in new rows makes whole numbers
\* floats and booleans objects
ReindexDtype(dtype, grew) ==
    IF ~grew THEN dtype
    ELSE IF dtype = "int64" THEN "float64"
    ELSE IF dtype = "bool" THEN "object"
    ELSE dtype

\* table[name] = series: a table without rows takes the series' index (its
\* columns filled with NaN); otherwise the series is aligned to the table's
\* index; a column of that name is replaced, else the column is added last
SetItem(t, name, ser) ==
    LET n == IF t.nrows = 0 THEN Len(ser.cells) ELSE t.nrows
        col == [name |-> name, dtype |-> ser.dtype, cells |-> Reindex(ser.cells, n)]
        old == [i \in 1..Len(t.cols) |->
                   [t.cols[i] EXCEPT !.cells = Reindex(t.cols[i].cells, n),
                                     !.dtype = ReindexDtype(t.cols[i].dtype,
                                                            n > t.nrows)]]
    IN  [absent |-> FALSE, nrows |-> n,
         cols |-> IF name \in Columns(t)
                  THEN [i \in 1..Len(old) |-> IF old[i].name = name THEN col ELSE old[i]]
                  ELSE Append(old, col)]

\* What render returns: kind "none" (None), "table" (a table: alias = TRUE is
\* the very object the caller passed), "msg" (a message) or "raise" (an
\* exception escaped); "idle" is no call made.
Ret(kind, msg, alias) ==
    [kind |-> kind, msg |-> msg, alias |-> alias, st |-> "", val |-> Null]

Attach_copy(t, p, series, steps) ==
    [ret |-> Ret("table", NoMsg, FALSE), table |-> t, log |-> steps, newcol |-> series,
     returned |-> SetItem(t, GetOutputColumn(Columns(t), p.out_column), series)]

\* out_column = _get_output_column(...); table[out_column] = newcol; return table
Attach(t, p, series, steps) ==
    LET out == SetItem(t, GetOutputColumn(Columns(t), p.out_column), series)
    IN  [ret |-> Ret("table", NoMsg, TRUE), table |-> out, log |-> steps,
         newcol |-> series, returned |-> out]

\* the return that leaves the caller's table converted for the formula engine
Return_prepared(t, r, steps) ==
    [ret |-> r, table |-> PrepareTableForExcelFormulas(t), log |-> steps,
     newcol |-> NoSeries, returned |-> t]

\* the return of render that leaves the table alone
Return(t, r, steps) ==
    [ret |-> r, table |-> t, log |-> steps, newcol |-> NoSeries, returned |-> t]

\* render(table, params), c what the parser/compiler yields for the formula:
\* what it returns, the caller's table afterwards, the steps taken, newcol and
\* the table returned (when one is)
Render(t, p, c) ==
    IF t.absent THEN Return(t, Ret("none", NoMsg, TRUE), <<>>)
    ELSE IF p.syntax = "excel"
    THEN LET input_table == PrepareTableForExcelFormulas(t)
             prep == <<Event("prepare", <<>>)>>
         IN  IF Strip(p.formula_excel) = <<>>
             THEN Return(t, Ret("table", NoMsg, TRUE), prep)
             ELSE LET f == ExcelFormula(input_table, c, p.all_rows)
                  IN  CASE f.out.st = "uve" ->
                             Return(t, Ret("msg", f.out.msg, FALSE), prep \o f.log)
                        [] f.out.st = "ok" -> Attach(t, p, f.series, prep \o f.log)
                        [] OTHER -> Return(t, Ret("raise", NoMsg, FALSE), prep \o f.log)
    ELSE IF Strip(p.formula_python) = <<>>
         THEN Return(t, Ret("table", NoMsg, TRUE), <<>>)
         ELSE LET f == PythonFormula(t, c)
              IN  CASE f.out.st = "ok" -> Attach(t, p, f.series, f.log)
                    \* except UserVisibleError, except Exception
                    [] f.out.st \in {"uve", "exc"} ->
                         Return(t, Ret("msg", f.out.msg, FALSE), f.log)
                    [] OTHER -> Return(t, Ret("raise", NoMsg, FALSE), f.log)

\* ------------------------------------------------------------------ inputs
Letters == <<"A", "B", "C", "D", "E", "F", "G", "H">>

\* column i of a table of n rows: whole numbers, each cell its own
IntColumn(name, i, n) ==
    [name |-> name, dtype |-> "int64", cells |-> [r \in 1..n |-> Num(10 * i + r)]]

\* a Datetime column: row r holds day r (day 1 is 1899-12-31, day 2 1900-01-01)
DtColumn(name, i, n) ==
    [name |-> name, dtype |-> "datetime64", cells |-> [r \in 1..n |-> Dt(r)]]

LetterName(i) == <<Letters[i]>>

\* the text of a reference, as the formula engine spells it
RefText(r1, r2, n1, n2) ==
    (IF n1 > 0 THEN LetterName(n1) ELSE <<>>) \o IntToStr(r1) \o <<":">>
    \o (IF n2 > 0 THEN LetterName(n2) ELSE <<>>) \o IntToStr(r2)

Range(r1, r2, n1, n2) ==
    [r1 |-> IntToStr(r1), r2 |-> IntToStr(r2), n1 |-> n1, n2 |-> n2,
     ref |-> RefText(r1, r2, n1, n2)]

AllRanges ==
    {Range(a, b, c, d) : a \in 0..(MaxRows + 1), b \in 0..(MaxRows + 1),
                         c \in 0..(MaxCols + 1), d \in 0..(MaxCols + 1)}

Input(rs) == [token |-> IF rs = <<>> THEN <<"#">> ELSE rs[1].ref, none |-> FALSE,
              ranges |-> rs]
NoneInput == [token |-> <<"A", "0">>, none |-> TRUE, ranges |-> <<>>]

S_DATEX == <<"D", "A", "T", "E", "X">>
Code(inputs, fault, from, kind) ==
    [compiles |-> TRUE, inputs |-> inputs, fault |-> fault,
     fname |-> IF fault = "builtin" THEN S_open ELSE S_DATEX,
     faultFrom |-> from, kind |-> kind, array |-> kind = "num"]

\* a formula text the parser rejects
NoCode == [Code(<<>>, "none", 0, "num") EXCEPT !.compiles = FALSE]

\* an expression that calls the builtin name from its evaluation from on
Calling(name, from) == [Code(<<>>, "builtin", from, "num") EXCEPT !.fname = name]

A1 == Range(1, 1, 1, 1)
A1B1 == Range(1, 1, 1, 2)

Idle == Ret("idle", NoMsg, FALSE)
NoParams == [syntax |-> "excel", formula_excel |-> <<>>, formula_python |-> <<>>,
             all_rows |-> FALSE, out_column |-> <<>>]

\* ------------------------------------------------------------------ SpecExcel
\* eval_excel_one_row and eval_excel_all_rows on every table shape and every
\* range
ExcelTables ==
    {Frame(n, [i \in 1..nc |-> IntColumn(LetterName(i), i, n)]) :
        n \in 0..MaxRows, nc \in 0..MaxCols}

ExcelInputs ==
    {<<>>, <<NoneInput>>, <<Input(<<>>)>>}
    \cup {<<Input(<<r>>)>> : r \in AllRanges}
    \cup {<<Input(<<r>>), Input(<<A1B1>>)>> : r \in AllRanges}
    \cup {<<Input(<<A1>>), Input(<<r>>)>> : r \in AllRanges}
    \cup {<<Input(<<A1, r>>)>> : r \in AllRanges}
    \cup {<<Input(<<r>>), NoneInput>> : r \in AllRanges}

ExcelCodes ==
    {Code(i, "none", 0, "num") : i \in ExcelInputs}
    \cup {Code(i, f, k, "num") :
            i \in {<<>>, <<Input(<<A1>>)>>, <<Input(<<A1B1>>), Input(<<A1>>)>>},
            f \in {"notimpl", "other"}, k \in 0..1}

InitExcel ==
    /\ table \in ExcelTables
    /\ before = table
    /\ params = NoParams
    /\ code \in ExcelCodes
    /\ ret = Idle
    /\ log = <<>>
    /\ newcol = NoSeries

Outcome(kind, out) ==
    [kind |-> kind, msg |-> out.msg, alias |-> FALSE, st |-> out.st, val |-> out.val]

EvalOneRow ==
    /\ ret.kind = "idle"
    /\ LET r == EvalExcelOneRow(code, table)
       IN  /\ ret' = Outcome("one", r.out)
           /\ log' = Invocations(r.calls)
    /\ UNCHANGED <<table, before, params, code, newcol>>

EvalAllRows ==
    /\ ret.kind = "idle"
    /\ LET r == EvalExcelAllRows(code, table)
       IN  /\ ret' = Outcome("all", r.out)
           /\ log' = Invocations(r.calls)
           /\ newcol' = IF r.out.st = "ok" THEN SeriesOf(r.col) ELSE NoSeries
    /\ UNCHANGED <<table, before, params, code>>

NextExcel == EvalOneRow \/ EvalAllRows

SpecExcel == InitExcel /\ [][NextExcel]_vars

\* ------------------------------------------------------------------ C5, C8, C9, C10
NCols == Len(before.cols)

\* the cell of row r, column c (both from 0) of the table evaluated
Cell(r, c) == before.cols[c + 1].cells[r + 1]

RECURSIVE RangesOf(_)
\* the ranges of the inputs, in declaration order
RangesOf(inputs) ==
    IF inputs = <<>> THEN <<>> ELSE Head(inputs).ranges \o RangesOf(Tail(inputs))

RECURSIVE ItemsOf(_)
\* what AllRows validation examines, in order: an unresolved input, or a range
ItemsOf(inputs) ==
    IF inputs = <<>> THEN <<>>
    ELSE (IF Head(inputs).none
          THEN <<[none |-> TRUE, token |-> Head(inputs).token, rng |-> A1]>>
          ELSE [k \in 1..Len(Head(inputs).ranges) |->
                  [none |-> FALSE, token |-> Head(inputs).token,
                   rng |-> Head(inputs).ranges[k]]])
         \o ItemsOf(Tail(inputs))

RowStart(rng) == StrToInt(rng.r1)
RowEnd(rng) == StrToInt(rng.r2)

AllRowsAccepts(rng) ==
    /\ RowStart(rng) = 1 /\ RowEnd(rng) = 1
    /\ 0 <= rng.n1 - 1 /\ rng.n1 - 1 < rng.n2 /\ rng.n2 <= NCols

AllRowsValidationKeys ==
    {"excel.badCellReference", "excel.formulaFirstRowReference",
     "excel.all_rows.badColumnRef"}

\* C8: in AllRows mode a range is accepted if and only if it names row 1 only
\* and 0 <= col_start < col_end <= column_count: the evaluation ends in the
\* error of the first item that is not accepted, which is FirstRowOnlyViolation
\* for a range naming another row (whatever its columns) and ColumnOutOfRange
\* with the range's reference text for a first-row range with bad columns; when
\* every range is accepted no validation error is raised.
C8_AllRowsValidation ==
    ret.kind = "all" =>
        LET items == ItemsOf(code.inputs)
            bad == {k \in 1..Len(items) : items[k].none \/ ~AllRowsAccepts(items[k].rng)}
        IN  IF bad = {}
            THEN ~(ret.st = "uve" /\ ret.msg.key \in AllRowsValidationKeys)
            ELSE LET it == items[CHOOSE k \in bad : \A j \in bad : k <= j]
                 IN  /\ ret.st = "uve"
                     /\ log = <<>>
                     /\ IF it.none
                        THEN ret.msg = Msg("excel.badCellReference", it.token)
                        ELSE IF RowStart(it.rng) # 1 \/ RowEnd(it.rng) # 1
                        THEN ret.msg = Msg("excel.formulaFirstRowReference", <<>>)
                        ELSE ret.msg = Msg("excel.all_rows.badColumnRef", it.rng.ref)

\* C8's case: a first-row range whose columns end past the table, after an
\* accepted one
C8_Witness ==
    /\ ret.kind = "all"
    /\ ret.msg.key = "excel.all_rows.badColumnRef"
    /\ Len(code.inputs) = 2
    /\ NCols = MaxCols
    /\ Len(code.inputs[2].ranges) = 1
    /\ code.inputs[2].ranges[1].n2 = NCols + 1
    /\ ret.msg.arg = code.inputs[2].ranges[1].ref

OneRowAccepts(rng) ==
    /\ RowStart(rng) - 1 >= 0 /\ rng.n1 - 1 >= 0 /\ rng.n2 <= NCols
    /\ RowStart(rng) - 1 < RowEnd(rng) /\ rng.n1 - 1 < rng.n2

OneRowValidationKeys ==
    {"excel.one_row.invalidCellRange", "excel.one_row.cellRangeNotRectangular",
     "excel.one_row.badRef"}

\* C9: in SingleRow mode an input's single range is accepted if and only if
\* row_start >= 0, col_start >= 0, col_end <= column_count, row_start < row_end
\* and col_start < col_end (0-based start, exclusive end), whatever the table's
\* row count; the first input whose range is not accepted ends the evaluation
\* in RangeOutOfBounds with the range's reference text.
C9_OneRowValidation ==
    ret.kind = "one" =>
        LET ins == code.inputs
            bad == {k \in 1..Len(ins) :
                      ins[k].none \/ Len(ins[k].ranges) # 1
                      \/ ~OneRowAccepts(ins[k].ranges[1])}
        IN  IF bad = {}
            THEN ~(ret.st = "uve" /\ ret.msg.key \in OneRowValidationKeys)
            ELSE LET in == ins[CHOOSE k \in bad : \A j \in bad : k <= j]
                 IN  /\ ret.st = "uve"
                     /\ log = <<>>
                     /\ (~in.none /\ Len(in.ranges) = 1)
                            => ret.msg = Msg("excel.one_row.badRef", in.ranges[1].ref)

\* C9's case: a range whose row_start and row_end both lie beyond the table's
\* last row is accepted and the formula evaluated
C9_Witness ==
    /\ ret.kind = "one"
    /\ ret.st = "ok"
    /\ Len(code.inputs) = 1
    /\ table.nrows >= 1
    /\ RowStart(code.inputs[1].ranges[1]) - 1 >= table.nrows

\* the argument AllRows evaluation owes the formula for a range on row r (from
\* 0): the row's cells at columns [col_start, col_end), a single one as a scalar
RowArgument(rng, r) ==
    IF rng.n2 - (rng.n1 - 1) = 1
    THEN Scalar(Cell(r, rng.n1 - 1))
    ELSE List([k \in 1..(rng.n2 - (rng.n1 - 1)) |-> Cell(r, rng.n1 - 1 + k - 1)])

\* C5: when AllRows evaluation of a table of n rows returns its result column,
\* the formula was invoked exactly n times, the i-th invocation on row i's
\* cells at the columns of each input's range in declaration order (one column
\* as a scalar, more as a left-to-right list), and the column has n entries,
\* entry i the result of the i-th invocation.
C5_AllRowsEvaluation ==
    (ret.kind = "all" /\ ret.st = "ok") =>
        LET rngs == RangesOf(code.inputs)
        IN  /\ Len(log) = table.nrows
            /\ Len(newcol.cells) = table.nrows
            /\ \A i \in 1..table.nrows :
                /\ log[i].ev = "invoke"
                /\ Len(log[i].args) = Len(rngs)
                /\ \A a \in 1..Len(rngs) : log[i].args[a] = RowArgument(rngs[a], i - 1)
                /\ newcol.cells[i] = ResultValue(code.kind, i - 1)

\* C5's case: several rows, a one-column input (scalar) and a wider one (list)
C5_Witness ==
    /\ ret.kind = "all"
    /\ ret.st = "ok"
    /\ table.nrows = MaxRows
    /\ Len(code.inputs) = 2
    /\ Len(log) = MaxRows
    /\ log[MaxRows].args[1].scalar
    /\ Len(log[MaxRows].args[2].items) = 2

\* the accepted single range of input a, as 0-based [r1, r2) x [c1, c2)
RowsReferenced(rng) == RowEnd(rng) - (RowStart(rng) - 1)
ColsReferenced(rng) == rng.n2 - (rng.n1 - 1)

\* the SingleRow evaluation reached the formula with a range that references
\* rows beyond the last table row
BeyondLastRow(a) ==
    /\ ret.kind = "one"
    /\ Len(log) = 1
    /\ a \in 1..Len(code.inputs)
    /\ RowEnd(code.inputs[a].ranges[1]) > table.nrows

\* C10 as claimed: the argument for such a range has one entry per referenced
\* cell, (row_end - row_start) * (col_end - col_start), in row-major order, null
\* where the row lies past the end of the table.
C10_NullForMissingCells ==
    \A a \in 1..Len(code.inputs) :
        BeyondLastRow(a) =>
            LET rng == code.inputs[a].ranges[1]
                w == ColsReferenced(rng)
                items == log[1].args[a].items
            IN  /\ Len(items) = RowsReferenced(rng) * w
                /\ \A k \in 1..Len(items) :
                     LET r == (RowStart(rng) - 1) + ((k - 1) \div w)
                         c == (rng.n1 - 1) + ((k - 1) % w)
                     IN  items[k] = IF r >= table.nrows THEN Null ELSE Cell(r, c)

\* C10 amended: the argument for such a range holds the referenced cells that
\* exist, (min(row_end, n) - min(row_start, n)) * (col_end - col_start) of them
\* in row-major order; the cells of rows past the end of the table are left
\* out, not passed as null (a single remaining cell is passed as a scalar).
C10_MissingCellsOmitted ==
    \A a \in 1..Len(code.inputs) :
        BeyondLastRow(a) =>
            LET rng == code.inputs[a].ranges[1]
                w == ColsReferenced(rng)
                lo == Min(RowStart(rng) - 1, table.nrows)
                arg == log[1].args[a]
            IN  /\ Len(arg.items) = (table.nrows - lo) * w
                /\ arg.scalar <=> (Len(arg.items) = 1)
                /\ \A r \in lo..(table.nrows - 1) : \A c \in 0..(w - 1) :
                     arg.items[(r - lo) * w + c + 1] = Cell(r, rng.n1 - 1 + c)

\* C10's case: a range two columns wide that starts inside the table and ends
\* past its last row
C10_Witness ==
    /\ BeyondLastRow(1)
    /\ table.nrows = MaxRows
    /\ RowStart(code.inputs[1].ranges[1]) = 1
    /\ ColsReferenced(code.inputs[1].ranges[1]) = 2
    /\ Len(log[1].args[1].items) = 2 * MaxRows

\* ------------------------------------------------------------------ Spec
\* render on tables of every shape, with and without a Datetime first column
\* and a column named "result", for every configuration
ResultNames(i) == IF i = 1 THEN S_result ELSE LetterName(i - 1)

RenderTables ==
    {NoTable}
    \cup {Frame(n, [i \in 1..nc |->
                      IF i = 1 /\ v = "dt" THEN DtColumn(LetterName(i), i, n)
                      ELSE IF v = "res" THEN IntColumn(ResultNames(i), i, n)
                      ELSE IntColumn(LetterName(i), i, n)]) :
            n \in 0..MaxRows, nc \in 0..MaxCols, v \in {"int", "dt", "res"}}

S_F == <<"=", "F">>
S_X == <<"X">>
Blank == {<<>>, <<" ", "\t">>}
Texts == Blank \cup {<<" ">> \o S_F \o <<" ">>}

\* the formula text render selects
Selected(p) == IF p.syntax = "excel" THEN p.formula_excel ELSE p.formula_python

\* the configurations: all_rows is varied for the spreadsheet syntax, and the
\* formula of the syntax not selected is empty or S_F
ParamSet ==
    {p \in [syntax : {"excel", "python"}, formula_excel : Texts \cup {S_F},
            formula_python : Texts \cup {S_F}, all_rows : BOOLEAN,
            out_column : {<<>>, LetterName(1), S_X}] :
        /\ p.syntax = "python" => (~p.all_rows /\ p.formula_excel \in {<<>>, S_F})
        /\ p.syntax = "excel" => p.formula_python \in {<<>>, S_F}
        /\ Selected(p) # S_F}

A2 == Range(2, 2, 1, 1)
A1A3 == Range(1, MaxRows + 1, 1, 1)
PastLastColumn == Range(1, 1, MaxCols + 1, MaxCols + 1)

RenderInputs ==
    {<<>>, <<Input(<<A1>>)>>, <<Input(<<A1B1>>)>>, <<Input(<<A2>>)>>,
     <<Input(<<A1A3>>)>>, <<Input(<<PastLastColumn>>)>>, <<NoneInput>>,
     <<Input(<<A1>>), Input(<<A1B1>>)>>}

Kinds == {"num", "str", "numstr", "bool", "mixed"}

\* what the spreadsheet parser, or compile(), may yield for a formula text
RenderCodes ==
    {NoCode}
    \cup {Code(i, "none", 0, "num") : i \in RenderInputs}
    \cup {Code(<<Input(<<A1>>)>>, "none", 0, k) : k \in Kinds}
    \cup {Code(i, f, k, "num") :
            i \in {<<>>, <<Input(<<A1>>)>>}, f \in {"notimpl", "other"}, k \in 0..1}

\* what compile() may yield for an expression that calls a builtin
CallingCodes == {Calling(name, k) : name \in BuiltinNames, k \in 0..1}

Init ==
    /\ table \in RenderTables
    /\ before = table
    /\ params \in ParamSet
    \* the parser is consulted for a formula text only
    /\ code \in IF Strip(Selected(params)) = <<>> THEN {NoCode}
                ELSE IF params.syntax = "python" THEN RenderCodes \cup CallingCodes
                ELSE RenderCodes
    /\ ret = Idle
    /\ log = <<>>
    /\ newcol = NoSeries

\* one call of render(table, params)
RenderCall ==
    /\ ret.kind = "idle"
    /\ LET r == Render(table, params, code)
       IN  /\ ret' = r.ret
           /\ table' = r.table
           /\ log' = r.log
           /\ newcol' = r.newcol
    /\ UNCHANGED <<before, params, code>>

Next == RenderCall

Spec == Init /\ [][Next]_vars

\* ------------------------------------------------------------------ SpecNaming
\* _get_output_column on tables with every choice of column names
S_A == <<"A">>
NamePool ==
    {S_A, S_X, S_result, S_result \o <<"0">>, S_result \o <<"1">>, S_X \o <<"0">>,
     S_result \o <<"2">>}

RECURSIVE SetToSeq(_)
SetToSeq(S) ==
    IF S = {} THEN <<>>
    ELSE LET x == CHOOSE x \in S : TRUE IN <<x>> \o SetToSeq(S \ {x})

NamingTables ==
    {LET names == SetToSeq(N)
     IN  Frame(1, [i \in 1..Len(names) |-> IntColumn(names[i], i, 1)]) :
        N \in {N \in SUBSET NamePool : Cardinality(N) <= MaxCols + 2}}

InitNaming ==
    /\ table \in NamingTables
    /\ before = table
    /\ params \in {[NoParams EXCEPT !.out_column = o] :
                      o \in {<<>>, S_A, S_X, S_result, S_result \o <<"0">>}}
    /\ code = NoCode
    /\ ret = Idle
    /\ log = <<>>
    /\ newcol = NoSeries

\* _get_output_column(table, params["out_column"])
ResolveName ==
    /\ ret.kind = "idle"
    /\ ret' = [Ret("name", NoMsg, FALSE) EXCEPT
                  !.val = Str(GetOutputColumn(Columns(table), params.out_column))]
    /\ UNCHANGED <<table, before, params, code, log, newcol>>

NextNaming == ResolveName

SpecNaming == InitNaming /\ [][NextNaming]_vars

\* the name requested: out_column, or "result" when it is empty
Base == IF params.out_column = <<>> THEN S_result ELSE params.out_column

\* C1: the resolved name is the base (out_column, or "result" when it is
\* empty) when the base is not a column of the table, and otherwise the base
\* followed by the least n >= 0 such that base + str(n) is not a column; it is
\* never the name of an existing column.
C1_OutputColumnName ==
    ret.kind = "name" =>
        LET names == Columns(table)
            name == ret.val.s
        IN  /\ name \notin names
            /\ Base \notin names => name = Base
            /\ Base \in names =>
                 \E n \in 0..Cardinality(names) :
                    /\ name = Base \o IntToStr(n)
                    /\ \A m \in 0..(n - 1) : (Base \o IntToStr(m)) \in names

\* C1's case: "result" and "result0" are taken, the default name becomes "result1"
C1_Witness ==
    /\ ret.kind = "name"
    /\ params.out_column = <<>>
    /\ {S_result, S_result \o <<"0">>} \subseteq Columns(table)
    /\ ret.val.s = S_result \o <<"1">>

\* ------------------------------------------------------------------ C2, C3, C4, C6, C7
ColumnNames(t) == [i \in 1..Len(t.cols) |-> t.cols[i].name]

\* render returned a table to which it attached an output column
Attached == ret.kind = "table" /\ newcol # NoSeries

\* C2 as claimed: after a successful render the table the caller passed in
\* still has exactly the columns it had before the call.
C2_CallerTableKeepsItsColumns ==
    Attached => ColumnNames(table) = ColumnNames(before)

\* C2 amended: a successful render attaches the output column to the table the
\* caller passed in, in place, and returns that same table object: after the
\* call the caller's table has the columns it had before plus the output
\* column, in spreadsheet and in expression mode.
C2_AttachedInPlace ==
    Attached =>
        /\ ret.alias
        /\ ColumnNames(table) =
             Append(ColumnNames(before),
                    GetOutputColumn(Columns(before), params.out_column))
        /\ table.cols[Len(table.cols)].dtype = newcol.dtype

\* C2's case: spreadsheet mode on a table with a Datetime column (evaluated on
\* a converted copy), the column attached to the caller's table
C2_Witness ==
    /\ Attached
    /\ params.syntax = "excel"
    /\ before.nrows = MaxRows
    /\ Len(before.cols) >= 1
    /\ before.cols[1].dtype = "datetime64"
    /\ Len(table.cols) = Len(before.cols) + 1

\* C3: whenever render returns an error message the caller's table has the
\* columns and cells it had before the call, and no output column is attached
\* or returned.
C3_AllOrNothing ==
    ret.kind = "msg" => (table = before /\ newcol = NoSeries /\ ~ret.alias)

\* C3's case: AllRows mode, the unimplemented function met after the first
\* row's result was computed
C3_Witness ==
    /\ ret.kind = "msg"
    /\ ret.msg.key = "excel.functionNotImplemented"
    /\ params.all_rows
    /\ Len(log) = 4
    /\ before.nrows = MaxRows
    /\ Len(before.cols) >= 1
    /\ before.cols[1].dtype = "datetime64"

\* a text that is empty or holds whitespace only
IsBlank(s) == \A i \in 1..Len(s) : IsSpace(s[i])

\* C4: an absent table is returned as absent whatever the configuration; a
\* blank or whitespace-only formula of the selected syntax makes render return
\* the table it was given, unchanged (Datetime columns still Datetime), with
\* no error and without compiling or evaluating anything, whatever the other
\* syntax's formula is.
C4_NoOp ==
    ret.kind # "idle" =>
        /\ before.absent => (ret.kind = "none" /\ table = before /\ log = <<>>)
        /\ (~before.absent /\ IsBlank(Selected(params))) =>
              /\ ret.kind = "table" /\ ret.alias
              /\ table = before
              /\ newcol = NoSeries
              /\ \A i \in 1..Len(log) : log[i].ev \notin {"compile", "invoke", "eval"}

\* C4's case: spreadsheet syntax with a whitespace-only formula, the other
\* syntax's formula not blank, on a table with a Datetime column
C4_Witness ==
    /\ ret.kind = "table"
    /\ params.syntax = "excel"
    /\ params.formula_excel = <<" ", "\t">>
    /\ params.formula_python = S_F
    /\ before.nrows = MaxRows
    /\ Len(before.cols) = MaxCols
    /\ before.cols[1].dtype = "datetime64"

\* render evaluated a spreadsheet formula in SingleRow mode and built newcol
SingleRowDone ==
    /\ params.syntax = "excel" /\ ~params.all_rows
    /\ Attached

\* C6: in SingleRow mode, for a table of n >= 0 rows, the formula is invoked
\* exactly once and the output column has length exactly n, row 0 holding the
\* computed value and every other row null.
C6_BroadcastColumn ==
    SingleRowDone =>
        /\ Cardinality({i \in 1..Len(log) : log[i].ev = "invoke"}) = 1
        /\ Len(newcol.cells) = before.nrows
        /\ \A i \in 1..Len(newcol.cells) :
              newcol.cells[i] = IF i = 1 THEN ResultValue(code.kind, 0) ELSE Null

\* the formula's references are valid for the mode selected
ReferencesValid ==
    \A k \in 1..Len(code.inputs) :
        /\ ~code.inputs[k].none
        /\ Len(code.inputs[k].ranges) = 1
        /\ IF params.all_rows THEN AllRowsAccepts(code.inputs[k].ranges[1])
           ELSE OneRowAccepts(code.inputs[k].ranges[1])

\* render was called with a spreadsheet formula that calls a function the
\* engine does not implement, its references valid
UnimplementedCalled ==
    /\ ret.kind # "idle"
    /\ ~before.absent
    /\ params.syntax = "excel" /\ ~IsBlank(params.formula_excel)
    /\ code.compiles /\ code.fault = "notimpl" /\ code.faultFrom = 0
    /\ ReferencesValid

ReturnsFunctionNotImplemented ==
    ret.kind = "msg" /\ ret.msg = Msg("excel.functionNotImplemented", code.fname)

\* C7 as claimed: such a formula makes render return FunctionNotImplemented
\* with the function's name in SingleRow and in AllRows mode, for every table.
C7_NotImplementedEveryTable ==
    UnimplementedCalled => ReturnsFunctionNotImplemented

\* C7 amended: such a formula makes render return FunctionNotImplemented with
\* the function's name in SingleRow mode for every table, and in AllRows mode
\* for every table that has at least one row (a table without rows never
\* invokes the formula in AllRows mode, and render returns a table).
C7_NotImplementedWhenInvoked ==
    (UnimplementedCalled /\ (params.all_rows => before.nrows >= 1))
        => ReturnsFunctionNotImplemented

\* C7's case: AllRows mode on a table with rows, and a valid reference
C7_Witness ==
    /\ UnimplementedCalled
    /\ params.all_rows
    /\ before.nrows = MaxRows
    /\ Len(code.inputs) = 1
    /\ ReturnsFunctionNotImplemented

\* ------------------------------------------------------------------ C11
\* C11: render never lets a failure escape as an exception: every call ends
\* returning None, a table or a message; in spreadsheet mode every failure
\* raised while compiling, resolving ranges or invoking the compiled formula,
\* an evaluation failure other than FunctionNotImplemented included, is
\* converted to a returned message.
C11_NoFailureEscapes ==
    ret.kind # "idle" => ret.kind \in {"none", "table", "msg"}

\* ------------------------------------------------------------------ C12
\* render evaluated a compiled expression (expression mode)
ExpressionEvaluated ==
    /\ ret.kind # "idle"
    /\ ~before.absent
    /\ params.syntax = "python" /\ ~IsBlank(params.formula_python)
    /\ code.compiles

DisabledSix == {S_import, S_breakpoint, S_compile, S_eval, S_exec, S_open}

\* the expression calls one of the six disabled builtins
CallsDisabled == code.fault = "builtin" /\ code.fname \in DisabledSix

\* the evaluation of some row raises (the first such row is faultFrom): the
\* expression raises by itself, calls a disabled builtin, or calls exit
SomeRowRaises ==
    /\ code.fault # "none" /\ code.faultFrom < before.nrows
    /\ code.fault = "builtin" => code.fname \in DisabledSix \cup {S_exit}

\* the call was aborted at the first row that raised: a message returned,
\* nothing attached, no later row evaluated
Aborted ==
    /\ ret.kind = "msg" /\ table = before /\ newcol = NoSeries
    /\ Len(log) = code.faultFrom + 2

\* C12: in expression mode, if evaluating the expression raises for any row
\* the whole column computation is aborted and render returns the exception's
\* string description as a plain string; only a call to one of __import__,
\* breakpoint, compile, eval, exec, open returns the structured message
\* python.disabledFunction with name "builtins.<name>", never a plain string;
\* every other builtin is the builtin itself, not the disabled function.
C12_ExpressionErrorChannel ==
    ExpressionEvaluated =>
        /\ (SomeRowRaises /\ ~CallsDisabled) => (Aborted /\ ret.msg.plain)
        /\ (SomeRowRaises /\ CallsDisabled) =>
              /\ Aborted
              /\ ~ret.msg.plain
              /\ ret.msg = Msg("python.disabledFunction", S_builtins \o code.fname)
        /\ ~CallsDisabled =>
              ~(ret.kind = "msg" /\ ret.msg.key = "python.disabledFunction")

\* ------------------------------------------------------------------ migrate_params
\* The value of params["syntax"]: an int (v0) or a str (v1).
IntSyntax(n) == [int |-> TRUE, n |-> n, s |-> ""]
StrSyntax(s) == [int |-> FALSE, n |-> 0, s |-> s]

SyntaxNames_swapped == <<"python", "excel">>

\* ["excel", "python"]
SyntaxNames == <<"excel", "python">>

\* xs[n] of a Python list: [ok, v]; a negative n counts from the end, an n
\* out of range raises IndexError
ListIndex(xs, n) ==
    IF 0 <= n /\ n < Len(xs) THEN [ok |-> TRUE, v |-> xs[n + 1]]
    ELSE IF n < 0 /\ 0 - n <= Len(xs) THEN [ok |-> TRUE, v |-> xs[Len(xs) + n + 1]]
    ELSE [ok |-> FALSE, v |-> ""]

\* _migrate_params_v0_to_v1(params): [ok, returned], returned a new dict
MigrateParamsV0ToV1(p) ==
    LET name == ListIndex(SyntaxNames, p.syntax.n)
    IN  [ok |-> name.ok,
         returned |-> IF name.ok THEN [p EXCEPT !.syntax = StrSyntax(name.v)] ELSE p]

\* migrate_params(params): whether it returned, what it returned, whether that
\* is the very object it was given, and the object it was given afterwards
MigrateParams(p) ==
    IF p.syntax.int
    THEN LET m == MigrateParamsV0ToV1(p)
         IN  [ok |-> m.ok, returned |-> m.returned, same |-> FALSE, params |-> p]
    ELSE [ok |-> TRUE, returned |-> p, same |-> TRUE, params |-> p]

\* the stored configurations: legacy syntax 0 and 1, other ints, current syntax
MigrateParamSet ==
    [syntax : {IntSyntax(n) : n \in -1..2} \cup {StrSyntax("excel"), StrSyntax("python")},
     formula_excel : {<<>>, S_F}, formula_python : {<<>>, S_F, S_A},
     all_rows : BOOLEAN, out_column : {<<>>, S_A, S_X}]

InitMigrate ==
    /\ table = NoTable
    /\ before = NoTable
    /\ params \in MigrateParamSet
    /\ code = NoCode
    /\ ret = Idle
    /\ log = <<>>
    /\ newcol = NoSeries

\* migrate_params(params), then migrate_params of what that returned: log
\* holds what each call returned
Migrate ==
    /\ ret.kind \in {"idle", "params"}
    /\ Len(log) < 2
    /\ LET arg == IF log = <<>> THEN params ELSE log[Len(log)].args
           m == MigrateParams(arg)
       IN  /\ ret' = Ret(IF m.ok THEN "params" ELSE "raise", NoMsg, m.same)
           /\ log' = IF m.ok THEN Append(log, Event("migrate", m.returned)) ELSE log
           /\ params' = IF log = <<>> THEN m.params ELSE params
    /\ UNCHANGED <<table, before, code, newcol>>

NextMigrate == Migrate

SpecMigrate == InitMigrate /\ [][NextMigrate]_vars

\* ------------------------------------------------------------------ C13
\* the configurations the claim is about
ClaimedSyntax ==
    {IntSyntax(0), IntSyntax(1), StrSyntax("excel"), StrSyntax("python")}

OtherFields(p) ==
    <<p.formula_excel, p.formula_python, p.all_rows, p.out_column>>

\* what the calls returned, for a configuration the claim is about
Migrated ==
    (params.syntax \in ClaimedSyntax /\ ret.kind # "idle") =>
        /\ ret.kind = "params"
        /\ Len(log) >= 1
        /\ LET first == log[1].args
           IN  /\ OtherFields(first) = OtherFields(params)
               /\ params.syntax = IntSyntax(0) => first.syntax = StrSyntax("excel")
               /\ params.syntax = IntSyntax(1) => first.syntax = StrSyntax("python")
               /\ ~params.syntax.int => (first = params /\ (Len(log) = 1 => ret.alias))
               /\ Len(log) = 2 => log[2].args = first

\* C13: migrate_params rewrites legacy syntax 0 to "excel" and 1 to "python",
\* leaves every other field unchanged, returns a configuration whose syntax
\* is a string unchanged, and migrating the result again returns the same
\* configuration, for every configuration whose syntax is 0, 1, "excel" or
\* "python"; the configuration object the caller passed is not modified by
\* any call.
C13_MigrateParams == []Migrated /\ [][params' = params]_vars

\* C13's case: a legacy configuration with syntax 1 and every other field set,
\* migrated twice
C13_Witness ==
    /\ params.syntax = IntSyntax(1)
    /\ params.formula_excel = S_F /\ params.formula_python = S_A
    /\ params.all_rows /\ params.out_column = S_X
    /\ Len(log) = 2
    /\ log[2].args.syntax = StrSyntax("python")

\* ------------------------------------------------------------------ columns
\* A Series with its row index and, when it is Categorical, its categories
\* (the declared labels, in order) and codes (per row, -1 = null); a Series
\* that is not Categorical holds cells.
PlainSeries(dtype, index, cells) ==
    [dtype |-> dtype, index |-> index, cells |-> cells, cats |-> <<>>, codes |-> <<>>]
CatSeries(index, cats, codes) ==
    [dtype |-> "category", index |-> index, cells |-> <<>>, cats |-> cats,
     codes |-> codes]

\* hasattr(series, "cat")
IsCategorical(ser) == ser.dtype = "category"

\* the value of each row
ValuesOf(ser) ==
    IF IsCategorical(ser)
    THEN [i \in 1..Len(ser.codes) |->
             IF ser.codes[i] = -1 THEN Null ELSE ser.cats[ser.codes[i] + 1]]
    ELSE ser.cells

\* the index 0..n-1
RangeIndex(n) == [i \in 1..n |-> i - 1]

\* series.reset_index(drop=True, inplace=True)
ResetIndex(ser) == [ser EXCEPT !.index = RangeIndex(Len(ser.index))]

\* the numbers of a set, ascending
RECURSIVE Ascending(_)
Ascending(S) ==
    IF S = {} THEN <<>>
    ELSE LET m == CHOOSE x \in S : \A y \in S : x <= y
         IN  <<m>> \o Ascending(S \ {m})

\* the position (from 0) of x in the ascending sequence of S
Rank(S, x) == Cardinality({y \in S : y < x})

\* remove_unused_categories that keeps every declared label
RemoveUnusedCategories_keep(ser) == ser

\* series.cat.remove_unused_categories(inplace=True): the categories some row
\* holds, in their order, and the codes renumbered
RemoveUnusedCategories(ser) ==
    LET used == {ser.codes[i] : i \in 1..Len(ser.codes)} \ {-1}
        keep == Ascending(used)
    IN  [ser EXCEPT
            !.cats = [j \in 1..Len(keep) |-> ser.cats[keep[j] + 1]],
            !.codes = [i \in 1..Len(ser.codes) |->
                          IF ser.codes[i] = -1 THEN -1 ELSE Rank(used, ser.codes[i])]]

\* the characters in code point order
CodePoints ==
    <<" ", "-", ".", "0", "1", "2", "3", "4", "5", "6", "7", "8", "9",
      "F", "T", "a", "b", "c", "d", "e", "l", "n", "r", "s", "u", "x", "y">>

CodePoint(c) == CHOOSE i \in 1..Len(CodePoints) : CodePoints[i] = c

RECURSIVE StrLess(_, _)
\* s < t of two str
StrLess(s, t) ==
    IF t = <<>> THEN FALSE
    ELSE IF s = <<>> THEN TRUE
    ELSE IF Head(s) = Head(t) THEN StrLess(Tail(s), Tail(t))
    ELSE CodePoint(Head(s)) < CodePoint(Head(t))

RECURSIVE SortedTexts(_)
\* the texts of a set, sorted
SortedTexts(S) ==
    IF S = {} THEN <<>>
    ELSE LET m == CHOOSE x \in S : \A y \in S \ {x} : StrLess(x, y)
         IN  <<m>> \o SortedTexts(S \ {m})

\* the position (from 0) of x in the sequence xs
IndexIn(xs, x) == (CHOOSE j \in 1..Len(xs) : xs[j] = x) - 1

\* pd.Categorical(values) of a list of str: its categories (the distinct
\* values, sorted) and a code per value
CategoricalOfTexts(texts) ==
    LET categories == SortedTexts({texts[j] : j \in 1..Len(texts)})
    IN  [categories |-> categories,
         codes |-> [j \in 1..Len(texts) |-> IndexIn(categories, texts[j])]]

\* pd.Categorical(values) of a list of int: likewise
CategoricalOfInts(ints) ==
    LET S == {ints[j] : j \in 1..Len(ints)}
    IN  [categories |-> Ascending(S),
         codes |-> [j \in 1..Len(ints) |-> Rank(S, ints[j])]]

\* is_numeric_dtype(categories.values): the labels are all numbers
NumericCategories(cats) ==
    cats # <<>> /\ \A j \in 1..Len(cats) : cats[j].k \in {"num", "flt"}

\* categories.dtype == object and infer_dtype(categories.values) == "string"
StringCategories(cats) ==
    cats # <<>> /\ \A j \in 1..Len(cats) : cats[j].k = "str"

\* "Map from non-Strings to Strings" of sanitize_series, ser with its index
\* reset and its unused categories removed: [ok, series]
\*   mapping = pd.Categorical(categories.astype(str))
\*   values = pd.Categorical(series.cat.codes[mapping.codes])
\*   values.rename_categories(mapping.categories, inplace=True)
\*   series = pd.Series(values)
\* series.cat.codes[mapping.codes] selects, for each category j, the code of
\* the row whose index label is mapping.codes[j]; rename_categories raises
\* ValueError when the number of categories differs.
MapToStrings(ser) ==
    LET mapping == CategoricalOfTexts([j \in 1..Len(ser.cats) |-> PyStr(ser.cats[j])])
        picked == [j \in 1..Len(mapping.codes) |-> ser.codes[mapping.codes[j] + 1]]
        values == CategoricalOfInts(picked)
    IN  IF Len(values.categories) # Len(mapping.categories)
        THEN [ok |-> FALSE, series |-> ser]
        ELSE [ok |-> TRUE,
              series |-> CatSeries(RangeIndex(Len(values.codes)), 
                                   [j \in 1..Len(mapping.categories) |->
                                       Str(mapping.categories[j])],
                                   values.codes)]

\* sanitize_series(series) of a Series object: whether it returned (ok), the
\* Series returned, whether that is the very object passed (same), and the
\* object passed as the call leaves it (arg)
SanitizeColumn(ser) ==
    LET s1 == ResetIndex(ser)
    IN  IF IsCategorical(s1)
        THEN LET s2 == RemoveUnusedCategories(s1)
             IN  IF NumericCategories(s2.cats)
                 THEN LET num == ToNumeric(Series("object", ValuesOf(s2)))
                      IN  [ok |-> TRUE, same |-> FALSE, arg |-> s2,
                           returned |-> PlainSeries(num.series.dtype, s2.index,
                                                    num.series.cells)]
                 ELSE IF ~StringCategories(s2.cats)
                 THEN LET m == MapToStrings(s2)
                      IN  [ok |-> m.ok, same |-> FALSE, arg |-> s2,
                           returned |-> m.series]
                 ELSE [ok |-> TRUE, same |-> TRUE, arg |-> s2, returned |-> s2]
        ELSE LET r == SanitizeSeries(Series(s1.dtype, s1.cells))
             IN  [ok |-> TRUE,
                  same |-> IsNumericDtype(s1.dtype) \/ IsDatetimeDtype(s1.dtype),
                  arg |-> s1,
                  returned |-> PlainSeries(r.dtype, s1.index, r.cells)]

\* autocast_series_dtype(series) of a Series object
AutocastColumn(ser) ==
    IF ser.dtype = "object"
    THEN LET r == AutocastSeriesDtype(Series(ser.dtype, ser.cells))
         IN  PlainSeries(r.dtype, ser.index, r.cells)
    ELSE IF IsCategorical(ser)
    THEN LET vals == ValuesOf(ser)
         IN  IF \A i \in 1..Len(vals) : IsNull(vals[i]) \/ vals[i] = Str(<<>>)
             THEN ser
             ELSE LET num == ToNumeric(Series("object", vals))
                  IN  IF num.ok
                      THEN PlainSeries(num.series.dtype, ser.index, num.series.cells)
                      ELSE ser
    ELSE ser

\* ------------------------------------------------------------------ SpecSanitize
\* sanitize_series and autocast_series_dtype on Series objects: newcol is the
\* object the caller passes, before is that object as it was, log holds what
\* each call returned
S_a == <<"a">>
S_b == <<"b">>
S_c == <<"c">>
S_x == <<"x">>

\* the declared labels of the Categorical columns: strings, numbers, objects
\* of a custom class, labels sharing a string form, in sorted and other orders
CategoryLists ==
    {<<>>,
     <<Str(S_a)>>, <<Str(S_a), Str(S_b)>>, <<Str(S_b), Str(S_a)>>,
     <<Str(S_a), Str(S_b), Str(S_c)>>,
     <<Str(S_1)>>, <<Str(S_1), Str(S_a)>>,
     <<Num(1)>>, <<Num(1), Num(2)>>,
     <<Num(1), Str(S_a)>>, <<Str(S_a), Num(1)>>, <<Num(1), Str(S_1)>>,
     <<Obj(1, S_a)>>, <<Obj(1, S_a), Obj(2, S_a)>>, <<Str(S_a), Obj(1, S_a)>>,
     <<Obj(1, S_b), Str(S_a)>>,
     <<Obj(1, S_a), Obj(2, S_b), Str(S_c)>>,
     <<Obj(1, S_b), Str(S_c), Str(S_b)>>}

\* the cells of the columns that are not Categorical
CellValues ==
    {Null, Num(1), Flt(1), Bool(TRUE), Str(<<>>), Str(S_a), Str(S_1), Obj(1, S_x)}

\* a sliced index: the rows 1..n of a longer Series
OffsetIndex(n) == [i \in 1..n |-> i]

Indexes(n) == {RangeIndex(n), OffsetIndex(n)}

\* the Categorical columns of n rows
CatInputs(n) ==
    {CatSeries(ix, cats, codes) :
        ix \in Indexes(n), cats \in CategoryLists, codes \in [1..n -> -1..MaxRows]}

\* the columns of n rows that are not Categorical: with the dtype pd.Series
\* infers for the cells, and with dtype object
PlainInputs(n) ==
    UNION {{PlainSeries("object", ix, cells), PlainSeries(InferDtype(cells), ix, cells)} :
              ix \in Indexes(n), cells \in [1..n -> CellValues]}

SanitizeInputs ==
    UNION {{ser \in CatInputs(n) : \A i \in 1..n : ser.codes[i] < Len(ser.cats)}
           \cup PlainInputs(n) : n \in 0..(MaxRows + 1)}

InitSanitize ==
    /\ table = NoTable
    /\ before \in SanitizeInputs
    /\ newcol = before
    /\ params = NoParams
    /\ code = NoCode
    /\ ret = Idle
    /\ log = <<>>

\* what a call returned
Returned(kind, ok, same, ser) ==
    [Ret(IF ok THEN kind ELSE "raise", NoMsg, same) EXCEPT !.val = ser]

\* sanitize_series(newcol)
SanitizeCall ==
    /\ ret.kind = "idle"
    /\ LET r == SanitizeColumn(newcol)
       IN  /\ ret' = Returned("series", r.ok, r.same, r.returned)
           /\ newcol' = r.arg
           /\ log' = IF r.ok THEN <<Event("sanitize", r.returned)>> ELSE <<>>
    /\ UNCHANGED <<table, before, params, code>>

\* autocast_series_dtype of what the last call returned: of a sanitized
\* column, and once more of its own result
AutocastCall ==
    /\ ret.kind = "series"
    /\ Len(log) \in 1..3
    /\ log[Len(log)].ev = "sanitize" \/ Len(log) = 2
    /\ LET r == AutocastColumn(log[Len(log)].args)
       IN  /\ ret' = Returned("series", TRUE, FALSE, r)
           /\ log' = Append(log, Event("autocast", r))
    /\ UNCHANGED <<table, before, params, code, newcol>>

\* sanitize_series of what autocast_series_dtype(sanitize_series(x)) returned
SanitizeResult ==
    /\ ret.kind = "series"
    /\ Len(log) = 2
    /\ LET r == SanitizeColumn(log[2].args)
       IN  /\ ret' = Returned("series", r.ok, FALSE, r.returned)
           /\ log' = IF r.ok THEN Append(log, Event("sanitize", r.returned)) ELSE log
    /\ UNCHANGED <<table, before, params, code, newcol>>

NextSanitize == SanitizeCall \/ AutocastCall \/ SanitizeResult

SpecSanitize == InitSanitize /\ [][NextSanitize]_vars

\* ------------------------------------------------------------------ C14 .. C18
\* the first call, sanitize_series(column), is over
Sanitized == ret.kind # "idle"

\* what the first call returned, when it returned
First == log[1].args

\* the string form of a value, null staying null
StrOrNull(v) == IF IsNull(v) THEN Null ELSE Str(PyStr(v))

\* the labels some row of the column holds
LiveLabels(ser) == {ValuesOf(ser)[i] : i \in 1..Len(ValuesOf(ser))} \ {Null}

\* C14: for every Categorical input column of n rows that is not converted to
\* Numeric (any number of rows per label, any index, labels that may be
\* non-strings and may share a string form), sanitize returns a Categorical
\* column of exactly n rows indexed 0..n-1 in which row i holds the string
\* form of the label input row i held (null stays null), and whose label set
\* is exactly the set of string forms of the labels some row holds.
C14_CategoricalRowsAndLabels ==
    (Sanitized /\ IsCategorical(before) /\ ~NumericCategories(newcol.cats)) =>
        /\ Len(log) >= 1
        /\ IsCategorical(First)
        /\ First.index = RangeIndex(Len(before.index))
        /\ ValuesOf(First) =
             [i \in 1..Len(before.index) |-> StrOrNull(ValuesOf(before)[i])]
        /\ {First.cats[j] : j \in 1..Len(First.cats)} =
             {Str(PyStr(l)) : l \in LiveLabels(before)}

\* C15: for a free-form (object) column of n rows, sanitize returns a String
\* column of n rows indexed 0..n-1 in which every non-null value is replaced
\* by its display string (an object of a custom class by its own str) and
\* every null stays null, never the text "nan"; an empty string stays an empty
\* string.
C15_NullPreservation ==
    (Sanitized /\ before.dtype = "object") =>
        /\ Len(log) >= 1
        /\ First.dtype = "object"
        /\ First.index = RangeIndex(Len(before.index))
        /\ Len(First.cells) = Len(before.cells)
        /\ \A i \in 1..Len(before.cells) :
              LET v == before.cells[i]
                  w == First.cells[i]
              IN  /\ IsNull(v) => (IsNull(w) /\ w # Str(S_nan))
                  /\ ~IsNull(v) => (w.k = "str" /\ w.s = PyStr(v))
                  /\ v = Str(<<>>) => w = Str(<<>>)
                  /\ v.k = "obj" => w = Str(v.s)

\* C15's case: a mixed column with a null, an empty string, a float and an
\* object of a custom class, on a sliced index
C15_Witness ==
    /\ Len(log) = 1
    /\ before.dtype = "object"
    /\ before.index = OffsetIndex(MaxRows + 1)
    /\ before.cells[1] = Flt(1) /\ IsNull(before.cells[2])
    /\ before.cells[MaxRows + 1] = Str(<<>>)
    /\ First.cells[1] = Str(<<"1", ".", "0">>) /\ IsNull(First.cells[2])

\* C16 as claimed: after sanitize(column) the column object passed in still
\* has its original row index and, when Categorical, its original declared
\* label set.
C16_CallerColumnKept ==
    Sanitized => (newcol.index = before.index /\ newcol.cats = before.cats)

\* C16 amended: sanitize resets the row index of the column object passed in,
\* in place, and removes the unused labels of a Categorical column passed in,
\* in place (its rows keep their values); a Numeric or Datetime column and a
\* Categorical column whose labels are all strings are returned as that same
\* object, every other column as a new object.
C16_SanitizedInPlace ==
    Sanitized =>
        /\ newcol.index = RangeIndex(Len(before.index))
        /\ newcol.dtype = before.dtype
        /\ ValuesOf(newcol) = ValuesOf(before)
        /\ IsCategorical(before) =>
              /\ {newcol.cats[j] : j \in 1..Len(newcol.cats)} = LiveLabels(before)
              /\ \A j, k \in 1..Len(newcol.cats) :
                    j < k => IndexIn(before.cats, newcol.cats[j])
                             < IndexIn(before.cats, newcol.cats[k])
        \* when the call has just returned
        /\ Len(log) = 1 =>
              /\ ret.alias <=>
                    \/ IsNumericDtype(before.dtype) \/ IsDatetimeDtype(before.dtype)
                    \/ (IsCategorical(before) /\ LiveLabels(before) # {}
                        /\ \A l \in LiveLabels(before) : l.k = "str")
              /\ ret.alias => First = newcol

\* C16's case: a sliced Categorical column of strings that declares a label
\* no row holds; the object passed is the object returned, pruned
C16_Witness ==
    /\ Len(log) = 1
    /\ IsCategorical(before)
    /\ before.index = OffsetIndex(MaxRows)
    /\ Len(before.cats) = 3
    /\ Len(newcol.cats) = 2
    /\ ret.alias

\* the canonical column types
Canonical(ser) ==
    \/ IsNumericDtype(ser.dtype) \/ IsDatetimeDtype(ser.dtype)
    \/ (ser.dtype = "object"
        /\ \A i \in 1..Len(ser.cells) : ser.cells[i].k \in {"str", "null"})
    \/ (IsCategorical(ser)
        /\ \A j \in 1..Len(ser.cats) : ser.cats[j].k = "str")

\* C17: sanitize is total: for every input column (Numeric, Datetime,
\* free-form, or Categorical with any labels, non-string labels sharing a
\* string form and rows repeating labels included) it returns a column of a
\* canonical type and never fails.
C17_SanitizeTotal ==
    Sanitized => (ret.kind = "series" /\ Len(log) >= 1 /\ Canonical(First))

\* a value that does not parse as a number
NotANumber(v) == v.k = "str" /\ v.s # <<>> /\ ~ParseNumber(v.s).ok

AllNullOrEmpty(ser) ==
    \A i \in 1..Len(ValuesOf(ser)) :
        IsNull(ValuesOf(ser)[i]) \/ ValuesOf(ser)[i] = Str(<<>>)

\* C18: autocast(sanitize(autocast(sanitize(x)))) = autocast(sanitize(x)) for
\* every raw result column x, autocast(autocast(y)) = autocast(y) for every
\* sanitized column y, and a String or Categorical sanitized column with a
\* value that does not parse as a number, or all null or empty, is returned
\* by autocast with its values unchanged.
C18_CoercionIdempotent ==
    /\ Len(log) = 4 => log[4].args = log[2].args
    /\ (Len(log) = 3 /\ log[3].ev = "autocast") => log[3].args = log[2].args
    /\ (Len(log) >= 2 /\ First.dtype \in {"object", "category"}
        /\ (AllNullOrEmpty(First)
            \/ \E i \in 1..Len(ValuesOf(First)) : NotANumber(ValuesOf(First)[i]))) =>
          log[2].args = First

\* C18's case: a raw column of a number, a null and a numeric text, made
\* Numeric by the first sanitize and autocast, sanitized and autocast again
C18_Witness ==
    /\ Len(log) = 4
    /\ before.dtype = "object"
    /\ Len(before.cells) = MaxRows + 1
    /\ before.cells[1] = Num(1) /\ IsNull(before.cells[2])
    /\ before.cells[MaxRows + 1] = Str(S_1)
    /\ log[2].args.dtype = "float64"
    /\ log[4].args = log[2].args

\* ------------------------------------------------------------------ SpecPrepare
\* _prepare_table_for_excel_formulas on tables with Datetime columns around
\* 1900-01-01
\* a Datetime column: row r holds day first + r - 1
DaysColumn(name, n, first) ==
    [name |-> name, dtype |-> "datetime64", cells |-> [r \in 1..n |-> Dt(first + r - 1)]]

\* a Datetime column whose first row is NaT
NaTColumn(name, n) ==
    [name |-> name, dtype |-> "datetime64",
     cells |-> [r \in 1..n |-> IF r = 1 THEN Null ELSE Dt(Excel1900MinDate)]]

\* a String column
StrColumn(name, n) ==
    [name |-> name, dtype |-> "object", cells |-> [r \in 1..n |-> Str(S_a)]]

ColumnKinds ==
    {[kind |-> k, first |-> 0] : k \in {"int", "str", "nat"}}
    \cup {[kind |-> "days", first |-> f] : f \in -1..2}

KindColumn(c, i, n) ==
    CASE c.kind = "int" -> IntColumn(LetterName(i), i, n)
      [] c.kind = "str" -> StrColumn(LetterName(i), n)
      [] c.kind = "nat" -> NaTColumn(LetterName(i), n)
      [] OTHER -> DaysColumn(LetterName(i), n, c.first)

PrepareTables ==
    UNION {{Frame(n, [i \in 1..nc |-> KindColumn(kinds[i], i, n)]) :
               kinds \in [1..nc -> ColumnKinds]} :
           n \in 0..MaxRows, nc \in 0..MaxCols}

InitPrepare ==
    /\ table \in PrepareTables
    /\ before = table
    /\ params = NoParams
    /\ code = NoCode
    /\ ret = Idle
    /\ log = <<>>
    /\ newcol = NoSeries

HasDatetime(t) == \E i \in 1..Len(t.cols) : IsDatetimeDtype(t.cols[i].dtype)

\* input_table = _prepare_table_for_excel_formulas(table): the table itself
\* when it has no Datetime column (return table), otherwise table.copy() with
\* the converted columns assigned; the caller's table is read only
PrepareCall ==
    /\ ret.kind = "idle"
    /\ ret' = [Ret("table", NoMsg, ~HasDatetime(table)) EXCEPT
                  !.val = PrepareTableForExcelFormulas(table)]
    /\ log' = <<Event("prepare", <<>>)>>
    /\ UNCHANGED <<table, before, params, code, newcol>>

NextPrepare == PrepareCall

SpecPrepare == InitPrepare /\ [][NextPrepare]_vars

\* ------------------------------------------------------------------ C19
\* the prepared table the call returned
Prepared == ret.val

\* the date serial the claim gives a Datetime cell: days since 1899-12-30 from
\* 1900-01-01 (day 2) on, null before and for NaT
Serial(v) == IF v.k = "dt" /\ v.n >= 2 THEN Flt(v.n) ELSE Null

C20_InputColumnsKept ==
    Attached =>
        /\ Len(table.cols) = Len(before.cols) + 1
        /\ table.nrows = before.nrows
        /\ \A i \in 1..Len(before.cols) : table.cols[i] = before.cols[i]
        /\ table.cols[Len(table.cols)].name \notin Columns(before)

\* ------------------------------------------------------------------ C21
\* the kinds of the non-null cells of a series
PayloadKinds(ser) ==
    {ser.cells[i].k : i \in {j \in 1..Len(ser.cells) : ~IsNull(ser.cells[j])}}

\* C21: every output column attached by a successful render is canonical, in
\* expression mode, spreadsheet AllRows and spreadsheet SingleRow: its
\* non-null cells are all numbers, all instants or all strings; the SingleRow
\* broadcast column never holds a boolean or other non-string, non-numeric
\* payload.
C21_AttachedColumnCanonical ==
    Attached =>
        \/ PayloadKinds(newcol) \subseteq {"num", "flt"}
        \/ PayloadKinds(newcol) \subseteq {"dt"}
        \/ PayloadKinds(newcol) \subseteq {"str"}

\* ------------------------------------------------------------------ C22
\* input k resolves to more than one range
MultiRange(k) == ~code.inputs[k].none /\ Len(code.inputs[k].ranges) > 1

\* every input declared before input k passes the validation of the mode
ValidBefore(k) ==
    \A i \in 1..(k - 1) :
        /\ ~code.inputs[i].none
        /\ Len(code.inputs[i].ranges) = 1
        /\ IF ret.kind = "all" THEN AllRowsAccepts(code.inputs[i].ranges[1])
           ELSE OneRowAccepts(code.inputs[i].ranges[1])

NonRectangularRange ==
    ret.st = "uve" /\ ret.msg = Msg("excel.one_row.cellRangeNotRectangular", <<>>)

\* C22: in both SingleRow and AllRows mode, an input token that resolves to
\* more than one range makes range resolution fail with NonRectangularRange;
\* the formula is never invoked with more arguments than it has declared
\* inputs.
C22_NonRectangularRange ==
    ret.kind \in {"one", "all"} =>
        /\ \A k \in 1..Len(code.inputs) :
              (MultiRange(k) /\ ValidBefore(k)) => (NonRectangularRange /\ log = <<>>)
        /\ \A i \in 1..Len(log) : Len(log[i].args) <= Len(code.inputs)

\* ------------------------------------------------------------------ C23
\* render went on to evaluate a spreadsheet formula
SpreadsheetEvaluated ==
    /\ ret.kind # "idle"
    /\ ~before.absent
    /\ params.syntax = "excel" /\ ~IsBlank(params.formula_excel)

Invoked == \E i \in 1..Len(log) : log[i].ev = "invoke"

\* the declared inputs that do not pass the validation of SingleRow mode
OneRowOffending ==
    {k \in 1..Len(code.inputs) :
        \/ code.inputs[k].none
        \/ Len(code.inputs[k].ranges) # 1
        \/ ~OneRowAccepts(code.inputs[k].ranges[1])}

\* the error SingleRow validation owes for declared input in
OneRowError(in) ==
    IF in.none THEN Msg("excel.one_row.invalidCellRange", in.token)
    ELSE IF Len(in.ranges) # 1 THEN Msg("excel.one_row.cellRangeNotRectangular", <<>>)
    ELSE Msg("excel.one_row.badRef", in.ranges[1].ref)

\* the items, in declaration order, that do not pass the validation of
\* AllRows mode
AllRowsOffending ==
    LET items == ItemsOf(code.inputs)
    IN  {k \in 1..Len(items) : items[k].none \/ ~AllRowsAccepts(items[k].rng)}

\* the error AllRows validation owes for item it
AllRowsError(it) ==
    IF it.none THEN Msg("excel.badCellReference", it.token)
    ELSE IF RowStart(it.rng) # 1 \/ RowEnd(it.rng) # 1
    THEN Msg("excel.formulaFirstRowReference", <<>>)
    ELSE Msg("excel.all_rows.badColumnRef", it.rng.ref)

Lowest(S) == CHOOSE k \in S : \A j \in S : k <= j

\* the error of the first offending input, in declaration order
FirstValidationError ==
    IF params.all_rows
    THEN AllRowsError(ItemsOf(code.inputs)[Lowest(AllRowsOffending)])
    ELSE OneRowError(code.inputs[Lowest(OneRowOffending)])

InputsPass ==
    IF params.all_rows THEN AllRowsOffending = {} ELSE OneRowOffending = {}

\* C23: validation precedes evaluation: in spreadsheet mode the compiled
\* formula is never invoked unless compilation succeeded and every declared
\* input passed validation; inputs are validated in declaration order and the
\* error returned is that of the first offending input, so a formula with both
\* an invalid reference and an unimplemented function reports the reference
\* error, and a formula that fails to compile reports InvalidFormula before
\* any range is examined.
C23_ValidationPrecedesEvaluation ==
    SpreadsheetEvaluated =>
        /\ Invoked => (code.compiles /\ InputsPass)
        /\ ~code.compiles =>
              /\ ret.kind = "msg"
              /\ ret.msg = Msg("excel.invalidFormula", S_err)
              /\ log = <<Event("prepare", <<>>), Event("compile", <<>>)>>
        /\ (code.compiles /\ ~InputsPass) =>
              /\ ret.kind = "msg"
              /\ ret.msg = FirstValidationError
              /\ table = before /\ newcol = NoSeries

\* C23's case: an invalid reference together with an unimplemented function,
\* the reference error reported and the formula not invoked
C23_Witness ==
    /\ SpreadsheetEvaluated
    /\ code.compiles /\ code.fault = "notimpl" /\ code.faultFrom = 0
    /\ ~InputsPass
    /\ before.nrows = MaxRows
    /\ ret.kind = "msg"
    /\ ret.msg.key \in {"excel.one_row.badRef", "excel.all_rows.badColumnRef"}
    /\ ~Invoked

\* ------------------------------------------------------------------ SpecBinding
\* render in expression mode, the expression an identifier, on tables whose
\* column names hold spaces, underscores and tabs
S_A_b == <<"A", " ", "b">>
S_Aub == <<"A", "_", "b">>
S_Atb == <<"A", "\t", "b">>
S_sAs == <<" ", "A", " ">>
S_Ab == <<"A", "b">>
S_uAu == <<"_", "A", "_">>

BindingNames == {S_A_b, S_Aub, S_Atb, S_sAs, S_Ab}
Identifiers == {S_Aub, S_uAu, S_Ab, S_A}

\* the tables of up to MaxCols columns with distinct names of BindingNames
BindingTables ==
    {Frame(n, [i \in 1..Len(names) |-> IntColumn(names[i], i, n)]) :
        n \in 0..MaxRows,
        names \in {ns \in UNION {[1..k -> BindingNames] : k \in 0..MaxCols} :
                      \A i, j \in 1..Len(ns) : i # j => ns[i] # ns[j]}}

\* what compile() yields for an expression that is the identifier ident
NameCode(ident) == [Code(<<>>, "none", 0, "name") EXCEPT !.fname = ident]

InitBinding ==
    /\ table \in BindingTables
    /\ before = table
    /\ \E ident \in Identifiers :
          /\ params = [NoParams EXCEPT !.syntax = "python", !.formula_python = ident]
          /\ code = NameCode(ident)
    /\ ret = Idle
    /\ log = <<>>
    /\ newcol = NoSeries

NextBinding == RenderCall

SpecBinding == InitBinding /\ [][NextBinding]_vars

\* ------------------------------------------------------------------ C24
\* the identifier a column name is claimed to be bound under
ClaimedIdentifier(name) ==
    [i \in 1..Len(name) |-> IF name[i] = " " THEN "_" ELSE name[i]]

\* the columns bound under the identifier the expression names
Holders ==
    {i \in 1..Len(before.cols) :
        ClaimedIdentifier(before.cols[i].name) = params.formula_python}

Rightmost(S) == CHOOSE i \in S : \A j \in S : j <= i

\* C24: in expression mode each column is bound under its name with every
\* space character replaced by an underscore and no other change; when two
\* columns map to the same identifier the identifier is bound, for every
\* row, to the value of the rightmost such column, and the evaluation is not
\* rejected.
C24_IdentifierBinding ==
    (ret.kind # "idle" /\ code.kind = "name") =>
        IF Holders # {}
        THEN /\ Attached
             /\ Len(newcol.cells) = before.nrows
             /\ \A r \in 1..before.nrows :
                   newcol.cells[r] = before.cols[Rightmost(Holders)].cells[r]
        ELSE before.nrows >= 1 => (ret.kind = "msg" /\ ret.msg.plain)

\* C24's case: "A b" and then "A_b", the expression A_b, every row holding
\* the value of the second column
C24_Witness ==
    /\ ret.kind = "table" /\ code.kind = "name"
    /\ params.formula_python = S_Aub
    /\ before.nrows = MaxRows
    /\ Len(before.cols) >= 2
    /\ before.cols[1].name = S_A_b /\ before.cols[2].name = S_Aub
    /\ Holders = {1, 2}
    /\ newcol.cells[MaxRows] = before.cols[2].cells[MaxRows]
    /\ newcol.cells[MaxRows] # before.cols[1].cells[MaxRows]

====
